---- MODULE Spec2Model ----
(***************************************************************************)
(* Model of dyedgreen/hello-rust: the worker pool (src/pool.rs), the HTTP  *)
(* request parser and lazily flushed response (src/server/http.rs) and the *)
(* dispatch loop (src/server/mod.rs).                                      *)
(***************************************************************************)
EXTENDS Integers, Sequences, FiniteSets, TLC

\* ------------------------------------------------------------------ bounds
MaxWorkers == 2
MaxJobs == 3
MaxShutdowns == 2
MaxCalls == 4
MaxBody == 2
MaxConns == 2
ServeWorkers == 2

VARIABLES
    \* ---- Pool (src/pool.rs)
    size,       \* Pool.size
    workers,    \* Pool.workers: the Vec of join handles, as worker ids
    chan,       \* the mpsc channel: messages sent and not yet received
    mutex,      \* holder of the receiver's Mutex, 0 when free
    wpc,        \* per worker: "lock", "recv", "job", "exit", "panicked"
    wjob,       \* per worker: the job it is running, 0 when none
    ppc,        \* the thread owning the Pool: "idle", "send", "join", "unwind", "dropped", "aborted"
    sent,       \* Pool::shutdown: Shutdown messages sent by the running call
    dropping,   \* the running shutdown was called by Drop
    njobs,      \* number of Pool::schedule calls made so far
    nshut,      \* number of explicit Pool::shutdown calls made so far
    returned,   \* number of Pool::shutdown calls that have returned
    accepted,   \* ids of the jobs Pool::schedule put on the channel
    runs,       \* per job: how often a worker called it
    ranBy,      \* per job: the workers that called it
    done,       \* per job: it returned
    deq,        \* every message received so far, in order of receipt
    stalled,    \* the jobs passed to schedule whose closure never returns
    \* ---- Response (src/server/http.rs)
    res,        \* the Response: status, headers, dirty, socket (what the sink took)
    last,       \* the latest call on the Response and what it returned
    ncalls,     \* number of calls made on the Response
    nwrites,    \* number of those that were write calls
    wrote,      \* the buffers of all write calls so far, concatenated in call order
    sinkOk,     \* every write on the sink so far took every byte it was offered
    \* ---- Request::from_stream (src/server/http.rs)
    sentReq,    \* the request the client sent: its lines, line ending and body
    stream,     \* the bytes of it the socket has not yet handed to a read
    bufr,       \* BufReader: the bytes read from the socket and not yet consumed
    line,       \* read_until: the bytes of the current line gathered so far
    rpc,        \* from_stream: "lines" (the for loop), "body" (after it), "done"
    started,    \* from_stream: started
    req,        \* from_stream: req (method, location, headers, body)
    result,     \* from_stream: "none" until it returns, then "Ok" or the error
    \* ---- Server::serve (src/server/mod.rs)
    conns       \* per accepted connection (= job): what its dispatch job did

poolVars == <<size, workers, chan, mutex, wpc, wjob, ppc, sent, dropping,
              njobs, nshut, returned, accepted, runs, ranBy, done, deq>>

respVars == <<res, last, ncalls, nwrites, wrote, sinkOk>>

reqVars == <<sentReq, stream, bufr, line, rpc, started, req, result>>

serveVars == <<conns>>

jobVars == <<stalled>>

nonPoolVars == <<respVars, reqVars, serveVars, jobVars>>

vars == <<poolVars, respVars, reqVars, serveVars, jobVars>>

\* ------------------------------------------------------------ Pool: data
JobMsg(j) == [type |-> "Job", id |-> j]
ShutdownMsg == [type |-> "Shutdown", id |-> 0]

JobIds == 1..MaxJobs

\* Sender::send: mpsc channels deliver in the order sent.
SendLifo(q, m) == <<m>> \o q
Send(q, m) == Append(q, m)

\* Pool::shutdown sends one Shutdown per unit of self.size.
SignalsOneShort(n) == n - 1
SignalsOneExtra(n) == n + 1
SignalsToSend(n) == n

\* Pool::shutdown ends with self.size = 0.
SizeKept(n) == n
SizeAfterShutdown(n) == 0

\* Pool::schedule refuses a pool whose size is 0.
IsShutdown(n) == n = 0

\* Receiver::recv takes the oldest message off the channel.
RecvKeepsMessage(q) == q
AfterRecv(q) == Tail(q)

\* The MutexGuard of recv.lock() is a temporary of the let statement: it is
\* dropped, and the mutex freed, before the match runs the job.
GuardKept(w) == w
GuardDropped(w) == 0

\* The Receiver lives in the Arc the worker closures share: it is gone, and
\* Sender::send returns Err, once every worker thread has ended.
Disconnected == \A w \in DOMAIN wpc : wpc[w] \in {"exit", "panicked"}

\* Every closure passed to schedule returns.
NoStall == stalled = {}

\* Pool::new(n): the fields and the n spawned workers, each about to lock.
PoolInit(n) ==
    /\ size = n
    /\ workers = [i \in 1..n |-> i]
    /\ chan = <<>>
    /\ mutex = 0
    /\ wpc = [w \in 1..n |-> "lock"]
    /\ wjob = [w \in 1..n |-> 0]
    /\ ppc = "idle"
    /\ sent = 0
    /\ dropping = FALSE
    /\ njobs = 0
    /\ nshut = 0
    /\ returned = 0
    /\ accepted = {}
    /\ runs = [j \in JobIds |-> 0]
    /\ ranBy = [j \in JobIds |-> {}]
    /\ done = [j \in JobIds |-> FALSE]
    /\ deq = <<>>

\* --------------------------------------------------------- Pool: actions
\* Pool::schedule: panics on a pool that was shut down, else sends the job;
\* the unwrap of a send with no receiver left panics too.
Schedule ==
    /\ ppc = "idle"
    /\ njobs < MaxJobs
    /\ njobs' = njobs + 1
    /\ IF IsShutdown(size) \/ Disconnected
       THEN /\ ppc' = "unwind"
            /\ UNCHANGED <<chan, accepted>>
       ELSE /\ chan' = Send(chan, JobMsg(njobs + 1))
            /\ accepted' = accepted \cup {njobs + 1}
            /\ ppc' = ppc
    /\ UNCHANGED <<size, workers, mutex, wpc, wjob, sent, dropping, nshut,
                   returned, runs, ranBy, done, deq>>
    /\ UNCHANGED nonPoolVars

\* Pool::shutdown is entered, by an explicit call or (Drop for Pool) when the
\* pool goes out of scope or the owning thread unwinds.
EnterShutdown(byDrop) ==
    /\ \/ ppc = "idle" /\ (byDrop \/ nshut < MaxShutdowns)
       \/ ppc = "unwind" /\ byDrop
    /\ dropping' = byDrop
    /\ nshut' = IF byDrop THEN nshut ELSE nshut + 1
    /\ ppc' = "send"
    /\ sent' = 0
    /\ UNCHANGED <<size, workers, chan, mutex, wpc, wjob, njobs, returned,
                   accepted, runs, ranBy, done, deq>>
    /\ UNCHANGED nonPoolVars

ShutdownCall ==
    \E byDrop \in BOOLEAN : EnterShutdown(byDrop)

\* Pool::shutdown, first loop: one Shutdown message per iteration; the unwrap
\* of a send with no receiver left panics and ends the thread.
ShutdownSend ==
    /\ ppc = "send"
    /\ IF sent < SignalsToSend(size)
       THEN IF Disconnected
            THEN /\ ppc' = "aborted"
                 /\ UNCHANGED <<chan, sent>>
            ELSE /\ chan' = Send(chan, ShutdownMsg)
                 /\ sent' = sent + 1
                 /\ ppc' = ppc
       ELSE /\ ppc' = "join"
            /\ UNCHANGED <<chan, sent>>
    /\ UNCHANGED <<size, workers, mutex, wpc, wjob, dropping, njobs, nshut,
                   returned, accepted, runs, ranBy, done, deq>>
    /\ UNCHANGED nonPoolVars

\* Pool::shutdown, second loop: pop the last worker and join it; join blocks
\* until that thread has ended, and its unwrap panics if the thread panicked.
ShutdownJoin ==
    /\ ppc = "join"
    /\ Len(workers) > 0
    /\ LET w == workers[Len(workers)] IN
        /\ wpc[w] \in {"exit", "panicked"}
        /\ workers' = SubSeq(workers, 1, Len(workers) - 1)
        /\ ppc' = IF wpc[w] = "panicked" THEN "aborted" ELSE ppc
    /\ UNCHANGED <<size, chan, mutex, wpc, wjob, sent, dropping, njobs, nshut,
                   returned, accepted, runs, ranBy, done, deq>>
    /\ UNCHANGED nonPoolVars

\* Pool::shutdown, after the loops: size = 0 and the call returns.
ShutdownReturn ==
    /\ ppc = "join"
    /\ Len(workers) = 0
    /\ size' = SizeAfterShutdown(size)
    /\ returned' = returned + 1
    /\ ppc' = IF dropping THEN "dropped" ELSE "idle"
    /\ UNCHANGED <<workers, chan, mutex, wpc, wjob, sent, dropping, njobs,
                   nshut, accepted, runs, ranBy, done, deq>>
    /\ UNCHANGED nonPoolVars

\* Worker loop: recv.lock() blocks until the mutex is free.
WorkerLock(w) ==
    /\ wpc[w] = "lock"
    /\ mutex = 0
    /\ mutex' = w
    /\ wpc' = [wpc EXCEPT ![w] = "recv"]
    /\ UNCHANGED <<size, workers, chan, wjob, ppc, sent, dropping, njobs,
                   nshut, returned, accepted, runs, ranBy, done, deq>>
    /\ UNCHANGED nonPoolVars

\* Worker loop: recv() blocks, holding the lock, until a message is there;
\* the guard is dropped at the end of the statement, and the match either
\* calls the job or returns from the thread.
WorkerRecv(w) ==
    /\ wpc[w] = "recv"
    /\ mutex = w
    /\ Len(chan) > 0
    /\ LET msg == Head(chan) IN
        /\ chan' = AfterRecv(chan)
        /\ deq' = Append(deq, msg)
        /\ mutex' = GuardDropped(w)
        /\ IF msg.type = "Job"
           THEN /\ wpc' = [wpc EXCEPT ![w] = "job"]
                /\ wjob' = [wjob EXCEPT ![w] = msg.id]
                /\ runs' = [runs EXCEPT ![msg.id] = @ + 1]
                /\ ranBy' = [ranBy EXCEPT ![msg.id] = @ \cup {w}]
           ELSE /\ wpc' = [wpc EXCEPT ![w] = "exit"]
                /\ UNCHANGED <<wjob, runs, ranBy>>
    /\ UNCHANGED <<size, workers, ppc, sent, dropping, njobs, nshut, returned,
                   accepted, done>>
    /\ UNCHANGED nonPoolVars

\* Worker loop: the job returns, unless it is one that never does, and the
\* loop starts over.
JobReturn(w) ==
    /\ wpc[w] = "job"
    /\ wjob[w] \notin stalled
    /\ done' = [done EXCEPT ![wjob[w]] = TRUE]
    /\ wjob' = [wjob EXCEPT ![w] = 0]
    /\ wpc' = [wpc EXCEPT ![w] = "lock"]
    /\ UNCHANGED <<size, workers, chan, mutex, ppc, sent, dropping, njobs,
                   nshut, returned, accepted, runs, ranBy, deq>>
    /\ UNCHANGED nonPoolVars

Workers == DOMAIN wpc

\* ------------------------------------------------------ Response: data
HTTP_VERSION == "HTTP/1.1"

\* status_reason: the reason phrase of a status code.
ReasonAlwaysOk(status) == "OK"
StatusReason(status) ==
    CASE status = 100 -> "Continue"
      [] status = 101 -> "Switching Protocols"
      [] status = 200 -> "OK"
      [] status = 201 -> "Created"
      [] status = 202 -> "Accepted"
      [] status = 203 -> "Non-Authoritative Information"
      [] status = 204 -> "No Content"
      [] status = 205 -> "Reset Content"
      [] status = 206 -> "Partial Content"
      [] status = 300 -> "Multiple Choices"
      [] status = 301 -> "Moved Permanently"
      [] status = 302 -> "Found"
      [] status = 303 -> "See Other"
      [] status = 304 -> "Not Modified"
      [] status = 305 -> "Use Proxy"
      [] status = 307 -> "Temporary Redirect"
      [] status = 400 -> "Bad Request"
      [] status = 401 -> "Unauthorized"
      [] status = 402 -> "Payment Required"
      [] status = 403 -> "Forbidden"
      [] status = 404 -> "Not Found"
      [] status = 405 -> "Method Not Allowed"
      [] status = 406 -> "Not Acceptable"
      [] status = 407 -> "Proxy Authentication Required"
      [] status = 408 -> "Request Time-out"
      [] status = 409 -> "Conflict"
      [] status = 410 -> "Gone"
      [] status = 411 -> "Length Required"
      [] status = 412 -> "Precondition Failed"
      [] status = 413 -> "Request Entity Too Large"
      [] status = 414 -> "Request-URI Too Large"
      [] status = 415 -> "Unsupported Media Type"
      [] status = 416 -> "Requested range not satisfiable"
      [] status = 417 -> "Expectation Failed"
      [] status = 418 -> "I'm a teapot"
      [] status = 500 -> "Internal Server Error"
      [] status = 501 -> "Not Implemented"
      [] status = 502 -> "Bad Gateway"
      [] status = 503 -> "Service Unavailable"
      [] status = 504 -> "Gateway Time-out"
      [] status = 505 -> "HTTP Version not supported"
      [] OTHER -> "Unknown Status"

\* The wire is a sequence of pieces: the head's pieces are the strings that
\* format! joins (the status in decimal), a body's pieces are its bytes.
RECURSIVE HeaderLines(_, _)
HeaderLines(headers, order) ==
    IF order = <<>> THEN <<>>
    ELSE <<Head(order), ": ", headers[Head(order)], "\r\n">>
             \o HeaderLines(headers, Tail(order))

\* Response::write, the head: status line, one line per header in the order
\* the HashMap iterates, and the blank line.
FormatHead(status, headers, order) ==
    <<HTTP_VERSION, " ", ToString(status), " ", StatusReason(status), "\r\n">>
        \o HeaderLines(headers, order) \o <<"\r\n">>

\* HashMap::iter visits every key once, in an order the map chooses.
IterOrders(headers) ==
    {o \in [1..Cardinality(DOMAIN headers) -> DOMAIN headers] :
        \A i, j \in DOMAIN o : i # j => o[i] # o[j]}

\* HashMap::insert: the key maps to the new value, replacing an old one.
InsertKeepsFirst(headers, key, val) ==
    [k \in DOMAIN headers \cup {key} |-> IF k \in DOMAIN headers THEN headers[k] ELSE val]
Insert(headers, key, val) ==
    [k \in DOMAIN headers \cup {key} |-> IF k = key THEN val ELSE headers[k]]

\* One write on the sink: an error (nothing taken), all of the bytes, or only
\* a prefix of them (io::Write::write may take fewer bytes than offered).
SinkOutcomes == {"all", "short", "err"}
Taken(bytes, outcome) ==
    IF outcome = "all" \/ bytes = <<>> THEN bytes
    ELSE SubSeq(bytes, 1, Len(bytes) - 1)

\* Response::for_stream: status 200, Content-Type: text/plain, not dirty.
ForStream ==
    [status |-> 200,
     headers |-> [k \in {"Content-Type"} |-> "text/plain"],
     dirty |-> FALSE,
     socket |-> <<>>]

\* Response::status rejects codes from 600 up.
StatusLimitOffByOne(code) == code > 600
RejectsClientErrors(code) == code >= 400
InvalidStatus(code) == code >= 600

\* Response::status and Response::header refuse once dirty is set.
NeverFlushed(r) == FALSE
Flushed(r) == r.dirty

\* Response::write sends the head unless dirty is set.
AlwaysHead(r) == TRUE
NeedsHead(r) == ~r.dirty

\* Response::write returns the error of the head's write through the ? in
\* front of the assignment dirty = true.
DirtyOnHeadError(r) == [r EXCEPT !.dirty = TRUE]
AfterHeadError(r) == r

\* Response::status(code): the response after the call and the result.
Status(r, code) ==
    IF InvalidStatus(code) THEN [res |-> r, ret |-> "InvalidData"]
    ELSE IF Flushed(r) THEN [res |-> r, ret |-> "AlreadyExists"]
    ELSE [res |-> [r EXCEPT !.status = code], ret |-> "Ok"]

\* Response::header(key, val): the response after the call and the result.
Header(r, key, val) ==
    IF Flushed(r) THEN [res |-> r, ret |-> "AlreadyExists"]
    ELSE [res |-> [r EXCEPT !.headers = Insert(r.headers, key, val)], ret |-> "Ok"]

\* Response::write(buf): on a response that is not dirty the head goes to the
\* sink first (an error returns at once, before dirty is set), then buf does.
\* order is the HashMap's iteration order, oh and ob what the sink does with
\* the head and with buf.
Write(r, buf, order, oh, ob) ==
    LET head == FormatHead(r.status, r.headers, order)
        r1 == IF NeedsHead(r)
              THEN [r EXCEPT !.socket = @ \o Taken(head, oh), !.dirty = TRUE]
              ELSE r
    IN  IF NeedsHead(r) /\ oh = "err" THEN [res |-> AfterHeadError(r), ret |-> "IoError"]
        ELSE IF ob = "err" THEN [res |-> r1, ret |-> "IoError"]
        ELSE [res |-> [r1 EXCEPT !.socket = @ \o Taken(buf, ob)], ret |-> "Ok"]

\* Whether the sink took every byte a write(buf) call offered it.
SinkTookAll(r, buf, order, oh, ob) ==
    LET head == FormatHead(r.status, r.headers, order) IN
    /\ NeedsHead(r) => (oh # "err" /\ Taken(head, oh) = head)
    /\ ob # "err" /\ Taken(buf, ob) = buf

\* ---------------------------------------------------- Response: actions
Codes == {0, 404, 600}
HeaderKeys == {"Content-Type", "X-Id"}
HeaderVals == {"text/html"}
Bufs == {<<>>, <<"a">>, <<"b">>, <<"a", "b">>}

RespInit ==
    /\ res = ForStream
    /\ last = [call |-> "for_stream", code |-> 0, ret |-> "Ok"]
    /\ ncalls = 0
    /\ nwrites = 0
    /\ wrote = <<>>
    /\ sinkOk = TRUE

CallStatus ==
    /\ ncalls < MaxCalls
    /\ \E code \in Codes :
        /\ res' = Status(res, code).res
        /\ last' = [call |-> "status", code |-> code, ret |-> Status(res, code).ret]
    /\ ncalls' = ncalls + 1
    /\ UNCHANGED <<nwrites, wrote, sinkOk>>
    /\ UNCHANGED <<poolVars, reqVars, serveVars, jobVars>>

CallHeader ==
    /\ ncalls < MaxCalls
    /\ \E key \in HeaderKeys, val \in HeaderVals :
        /\ res' = Header(res, key, val).res
        /\ last' = [call |-> "header", code |-> 0, ret |-> Header(res, key, val).ret]
    /\ ncalls' = ncalls + 1
    /\ UNCHANGED <<nwrites, wrote, sinkOk>>
    /\ UNCHANGED <<poolVars, reqVars, serveVars, jobVars>>

CallWrite ==
    /\ ncalls < MaxCalls
    /\ \E buf \in Bufs, order \in IterOrders(res.headers), oh, ob \in SinkOutcomes :
        /\ res' = Write(res, buf, order, oh, ob).res
        /\ last' = [call |-> "write", code |-> 0, ret |-> Write(res, buf, order, oh, ob).ret]
        /\ wrote' = wrote \o buf
        /\ sinkOk' = (sinkOk /\ SinkTookAll(res, buf, order, oh, ob))
    /\ ncalls' = ncalls + 1
    /\ nwrites' = nwrites + 1
    /\ UNCHANGED <<poolVars, reqVars, serveVars, jobVars>>

\* ------------------------------------------------------- Request: data
\* Text is a sequence of one-character strings.
HTTP_VERSION_TEXT == <<"H", "T", "T", "P", "/", "1", ".", "1">>
ContentLengthText == <<"C", "o", "n", "t", "e", "n", "t", "-", "L", "e", "n", "g", "t", "h">>
Digits == <<"0", "1", "2", "3", "4", "5", "6", "7", "8", "9">>

Min(a, b) == IF a < b THEN a ELSE b

\* BufReader::new: the default buffer capacity.
BufCapacity == 8192

IndexOf(s, c) ==
    IF \E i \in 1..Len(s) : s[i] = c
    THEN CHOOSE i \in 1..Len(s) : s[i] = c /\ \A j \in 1..(i - 1) : s[j] # c
    ELSE 0

Drop(s, n) == SubSeq(s, n + 1, Len(s))
Take(s, n) == SubSeq(s, 1, n)

\* str::split(c): the pieces between occurrences of c, empty ones included.
RECURSIVE Split(_, _)
Split(s, c) ==
    IF IndexOf(s, c) = 0 THEN <<s>>
    ELSE <<Take(s, IndexOf(s, c) - 1)>> \o Split(Drop(s, IndexOf(s, c)), c)

\* str::splitn(2, c): cut at the first occurrence of c only.
SplitN2(s, c) ==
    IF IndexOf(s, c) = 0 THEN <<s>>
    ELSE <<Take(s, IndexOf(s, c) - 1), Drop(s, IndexOf(s, c))>>

\* str::trim: leading and trailing whitespace removed.
IsSpace(c) == c \in {" ", "\t", "\r", "\n"}
RECURSIVE TrimStart(_)
TrimStart(s) == IF s # <<>> /\ IsSpace(Head(s)) THEN TrimStart(Tail(s)) ELSE s
RECURSIVE TrimEnd(_)
TrimEnd(s) ==
    IF s # <<>> /\ IsSpace(s[Len(s)]) THEN TrimEnd(Take(s, Len(s) - 1)) ELSE s
Trim(s) == TrimEnd(TrimStart(s))

\* str::parse::<usize>: an optional "+", then one or more decimal digits;
\* -1 stands for the parse error. (Values here stay far below usize::MAX.)
DigitValue(c) == CHOOSE d \in 0..9 : Digits[d + 1] = c
RECURSIVE DigitsValue(_, _)
DigitsValue(s, acc) ==
    IF s = <<>> THEN acc ELSE DigitsValue(Tail(s), 10 * acc + DigitValue(Head(s)))
ParseUsize(s) ==
    LET d == IF s # <<>> /\ Head(s) = "+" THEN Tail(s) ELSE s IN
    IF d # <<>> /\ \A i \in 1..Len(d) : \E k \in 1..10 : Digits[k] = d[i]
    THEN DigitsValue(d, 0)
    ELSE -1

\* parse_start_line: the method and location, or the error.
MethodAlwaysGet(token) == [kind |-> "Get", name |-> <<>>]
ParseMethod(token) ==
    CASE token = <<"G", "E", "T">> -> [kind |-> "Get", name |-> <<>>]
      [] token = <<"P", "O", "S", "T">> -> [kind |-> "Post", name |-> <<>>]
      [] token = <<"P", "U", "T">> -> [kind |-> "Put", name |-> <<>>]
      [] token = <<"D", "E", "L", "E", "T", "E">> -> [kind |-> "Delete", name |-> <<>>]
      [] OTHER -> [kind |-> "Unknown", name |-> token]

ParseStartLine(l) ==
    LET parts == Split(l, " ") IN
    IF Len(parts) < 3
    THEN [err |-> "protocol not HTTP", method |-> ParseMethod(<<>>), location |-> <<>>]
    ELSE IF parts[Len(parts)] # HTTP_VERSION_TEXT
    THEN [err |-> "invalid HTTP version", method |-> ParseMethod(<<>>), location |-> <<>>]
    ELSE [err |-> "", method |-> ParseMethod(parts[1]), location |-> parts[2]]

\* parse_header_line: the trimmed key and value, or the error.
ParseHeaderLine(l) ==
    LET parts == SplitN2(l, ":") IN
    IF Len(parts) # 2
    THEN [err |-> "malformed HTTP header", key |-> <<>>, val |-> <<>>]
    ELSE [err |-> "", key |-> Trim(parts[1]), val |-> Trim(parts[2])]

\* BufRead::lines: a line loses its "\n" and a "\r" before it.
StripEol(l) ==
    LET a == IF l # <<>> /\ l[Len(l)] = "\n" THEN Take(l, Len(l) - 1) ELSE l IN
    IF a # Take(l, Len(l)) /\ a # <<>> /\ a[Len(a)] = "\r"
    THEN Take(a, Len(a) - 1) ELSE a

\* Option<Vec<u8>>
None == [some |-> FALSE, bytes |-> <<>>]
Some(b) == [some |-> TRUE, bytes |-> b]

\* What one read on the socket into a buffer of cap bytes can return: an
\* error (-1), end of stream (0), or any number of the bytes still to come.
ReadOutcomes(s, cap) ==
    {-1} \cup (IF s = <<>> THEN {0} ELSE 1..Min(Len(s), cap))

\* BufReader::read fills its buffer by one read on the socket, except that a
\* destination as large as the buffer is read into directly.
ReadCap(wanted) == IF wanted >= BufCapacity THEN wanted ELSE BufCapacity

\* from_stream, the body of the for loop for one line: the state it leaves.
ProcessLine(l, st) ==
    IF ~st.started
    THEN IF l = <<>> THEN st
         ELSE LET sl == ParseStartLine(l) IN
              IF sl.err # "" THEN [st EXCEPT !.rpc = "done", !.result = sl.err]
              ELSE [st EXCEPT !.started = TRUE,
                              !.req.method = sl.method,
                              !.req.location = sl.location]
    ELSE IF l = <<>> THEN [st EXCEPT !.rpc = "body"]
         ELSE LET h == ParseHeaderLine(l) IN
              IF h.err # "" THEN [st EXCEPT !.rpc = "done", !.result = h.err]
              ELSE [st EXCEPT !.req.headers = Insert(@, h.key, h.val)]

\* from_stream: the request as first constructed.
NewRequest ==
    [method |-> [kind |-> "Get", name |-> <<>>],
     location |-> <<>>,
     headers |-> [k \in {} |-> <<>>],
     body |-> None]

\* ---------------------------------------------------- Request: actions
ParseState == [rpc |-> rpc, started |-> started, req |-> req, result |-> result]

SetParseState(st) ==
    /\ rpc' = st.rpc
    /\ started' = st.started
    /\ req' = st.req
    /\ result' = st.result

\* lines(), read_until: the buffer is empty, so one read on the socket. An
\* error ends from_stream (line?); at end of stream a line without newline is
\* yielded if there is one, else the loop is over.
FillBuf ==
    /\ rpc = "lines"
    /\ bufr = <<>>
    /\ \E k \in ReadOutcomes(stream, BufCapacity) :
        IF k = -1
        THEN /\ SetParseState([ParseState EXCEPT !.rpc = "done", !.result = "IoError"])
             /\ UNCHANGED <<stream, bufr, line>>
        ELSE IF k = 0
        THEN /\ IF line = <<>>
                THEN SetParseState([ParseState EXCEPT !.rpc = "body"])
                ELSE SetParseState(ProcessLine(StripEol(line), ParseState))
             /\ line' = <<>>
             /\ UNCHANGED <<stream, bufr>>
        ELSE /\ bufr' = Take(stream, k)
             /\ stream' = Drop(stream, k)
             /\ UNCHANGED <<line, rpc, started, req, result>>
    /\ UNCHANGED <<sentReq>>
    /\ UNCHANGED <<poolVars, respVars, serveVars, jobVars>>

\* lines(), read_until: the buffer holds bytes. Up to and including a "\n"
\* they end the line, which the loop body then handles; without one they all
\* join the line and the buffer is empty again.
ScanBuf ==
    /\ rpc = "lines"
    /\ bufr # <<>>
    /\ LET i == IndexOf(bufr, "\n") IN
        IF i = 0
        THEN /\ line' = line \o bufr
             /\ bufr' = <<>>
             /\ UNCHANGED <<rpc, started, req, result>>
        ELSE /\ SetParseState(ProcessLine(StripEol(line \o Take(bufr, i)), ParseState))
             /\ line' = <<>>
             /\ bufr' = Drop(bufr, i)
    /\ UNCHANGED <<sentReq, stream>>
    /\ UNCHANGED <<poolVars, respVars, serveVars, jobVars>>

\* buf.read(&mut body) on a body of content_len bytes: one read call.
BodyReadAll(wanted) == bufr
BodyReadBuffered(wanted) == Take(bufr, Min(Len(bufr), wanted))

\* from_stream after the loop: with a Content-Length above 0 the body is what
\* a single buf.read returns: bytes left in the buffer if there are any, else
\* what one read on the socket delivers.
ReadBody ==
    /\ rpc = "body"
    /\ LET hasLen == ContentLengthText \in DOMAIN req.headers
           contentLen == IF hasLen THEN ParseUsize(req.headers[ContentLengthText]) ELSE 0
       IN
        IF hasLen /\ contentLen = -1
        THEN /\ result' = "invalid content length"
             /\ UNCHANGED <<req, stream, bufr>>
        ELSE IF contentLen = 0
        THEN /\ result' = "Ok"
             /\ UNCHANGED <<req, stream, bufr>>
        ELSE IF bufr # <<>>
        THEN /\ req' = [req EXCEPT !.body = Some(BodyReadBuffered(contentLen))]
             /\ bufr' = Drop(bufr, Len(BodyReadBuffered(contentLen)))
             /\ result' = "Ok"
             /\ UNCHANGED stream
        ELSE \E k \in ReadOutcomes(stream, ReadCap(contentLen)) :
             IF k = -1
             THEN /\ result' = "IoError"
                  /\ UNCHANGED <<req, stream, bufr>>
             ELSE /\ req' = [req EXCEPT !.body = Some(Take(stream, Min(k, contentLen)))]
                  /\ bufr' = SubSeq(stream, Min(k, contentLen) + 1, k)
                  /\ stream' = Drop(stream, k)
                  /\ result' = "Ok"
    /\ rpc' = "done"
    /\ UNCHANGED <<sentReq, line, started>>
    /\ UNCHANGED <<poolVars, respVars, serveVars, jobVars>>

\* The requests put on the wire: a start line, header lines, the blank line
\* (or none), a body, with "\r\n" or "\n" ending each line.
RECURSIVE Join(_, _)
Join(ls, eol) == IF ls = <<>> THEN <<>> ELSE Head(ls) \o eol \o Join(Tail(ls), eol)

Wire(r) == Join(r.lines, r.eol) \o r.body

ContentLengthLine(n) == ContentLengthText \o <<":", " ", Digits[n + 1]>>

StartLineGet == <<"G", "E", "T", " ", "/", " ", "H", "T", "T", "P", "/", "1", ".", "1">>
StartLines ==
    {StartLineGet,
     <<"B", "R", "E", "W", " ", "/", "p", " ", "H", "T", "T", "P", "/", "1", ".", "1">>,
     <<"G", "E", "T", " ", "/", " ", "H", "T", "T", "P", "/", "1", ".", "0">>,
     <<"B", "O", "G", "U", "S">>,
     <<"P", "O", "S", "T", " ", "/", "p", " ", "H", "T", "T", "P", "/", "1", ".", "1">>,
     <<"P", "U", "T", " ", "/", "p", " ", "H", "T", "T", "P", "/", "1", ".", "1">>,
     <<"D", "E", "L", "E", "T", "E", " ", "/", "p", " ", "H", "T", "T", "P", "/", "1", ".", "1">>,
     <<"g", "e", "t", " ", "/", "p", " ", "H", "T", "T", "P", "/", "1", ".", "1">>,
     <<"G", "E", "T", " ", "/", "a", " ", "b", " ", "H", "T", "T", "P", "/", "1", ".", "1">>}
HeaderXId == <<"X", "-", "I", "d", ":", " ", "7">>
HeaderBadLength == <<"C", "o", "n", "t", "e", "n", "t", "-", "L", "e", "n", "g", "t", "h", ":", " ", "x">>
ExtraHeaders ==
    {<<>>,
     <<HeaderXId>>,
     <<<<"N", "o", "C", "o", "l", "o", "n">>>>,
     <<HeaderXId, <<"X", "-", "I", "d", " ", ":", "8", " ">>>>,
     <<HeaderXId, <<"x", "-", "i", "d", ":", " ", "9">>>>,
     <<<<"H", "o", "s", "t", ":", "a", ":", "1">>>>}
Bodies == UNION {[1..n -> {"a", "b"}] : n \in 0..MaxBody}
Eols == {<<"\r", "\n">>, <<"\n">>}

\* Requests with a declared length and a body, and requests without a body
\* (well formed or not, with or without the blank line that ends the headers).
FramedRequests ==
    {[lines |-> <<StartLineGet>> \o xh \o <<ContentLengthLine(n)>> \o <<<<>>>>,
      eol |-> eol, body |-> b] :
        xh \in {<<>>, <<HeaderXId>>}, n \in 0..(MaxBody + 1), eol \in Eols, b \in Bodies}

BodylessRequests ==
    {[lines |-> lead \o <<sx[1]>> \o sx[2] \o lh \o blank, eol |-> <<"\r", "\n">>, body |-> <<>>] :
        lead \in {<<>>, <<<<>>>>},
        sx \in (StartLines \X {<<>>}) \cup ({StartLineGet} \X ExtraHeaders),
        lh \in {<<>>, <<HeaderBadLength>>}, blank \in {<<>>, <<<<>>>>}}

SentRequests == FramedRequests \cup BodylessRequests

ReqIdle ==
    /\ sentReq = [lines |-> <<>>, eol |-> <<>>, body |-> <<>>]
    /\ stream = <<>>
    /\ bufr = <<>>
    /\ line = <<>>
    /\ rpc = "done"
    /\ started = FALSE
    /\ req = NewRequest
    /\ result = "none"

\* from_stream is entered with the BufReader empty and nothing parsed.
ReqInit ==
    /\ sentReq \in SentRequests
    /\ stream = Wire(sentReq)
    /\ bufr = <<>>
    /\ line = <<>>
    /\ rpc = "lines"
    /\ started = FALSE
    /\ req = NewRequest
    /\ result = "none"

\* --------------------------------------------------------- Server::serve
\* The status the dispatch job answers a request it could not parse with.
ErrorStatus == 400

\* The dispatch job calls the handler when from_stream returned Ok.
CallsHandlerAlways(parsedOk) == TRUE
CallsHandler(parsedOk) == parsedOk

\* The job serve schedules for a connection, as a function of what from_stream
\* returns (parsedOk), of the sink (order, oh, ob as in Write) and of what the
\* handler returns (hr). On Err: status(400).unwrap(), one empty write whose
\* error is only logged, return. On Ok: the handler is called once with the
\* request and the fresh Response, and its error is only logged.
Dispatch(parsedOk, order, oh, ob, hr) ==
    LET st == Status(ForStream, ErrorStatus)
        wr == Write(st.res, <<>>, order, oh, ob)
    IN  IF ~parsedOk /\ st.ret # "Ok"
        THEN [parsed |-> "Err", panicked |-> TRUE, res |-> st.res, wret |-> "none",
              took |-> FALSE, handled |-> 0, hret |-> "none"]
        ELSE IF ~CallsHandler(parsedOk)
        THEN [parsed |-> "Err", panicked |-> FALSE, res |-> wr.res, wret |-> wr.ret,
              took |-> SinkTookAll(st.res, <<>>, order, oh, ob),
              handled |-> 0, hret |-> "none"]
        ELSE [parsed |-> IF parsedOk THEN "Ok" ELSE "Err", panicked |-> FALSE,
              res |-> IF parsedOk THEN ForStream ELSE wr.res,
              wret |-> IF parsedOk THEN "none" ELSE wr.ret,
              took |-> FALSE, handled |-> 1, hret |-> hr]

\* Every way the job can go.
DispatchOutcomes ==
    {Dispatch(parsedOk, order, oh, ob, hr) :
        parsedOk \in BOOLEAN, order \in IterOrders(ForStream.headers),
        oh \in SinkOutcomes, ob \in SinkOutcomes, hr \in {"Ok", "Err"}}

NoDispatch ==
    [parsed |-> "none", panicked |-> FALSE, res |-> ForStream, wret |-> "none",
     took |-> FALSE, handled |-> 0, hret |-> "none"]

ServeIdle == conns = [c \in JobIds |-> NoDispatch]

\* listener.incoming() yields a connection: its dispatch job is scheduled.
Accept ==
    /\ njobs < MaxConns
    /\ Schedule

\* listener.incoming() yields an error: serve returns it and the pool is
\* dropped.
AcceptError ==
    EnterShutdown(TRUE)

\* A worker runs the dispatch job of the connection it took off the channel,
\* to its end: a panic ends the worker thread, a return restarts its loop.
DispatchJob(w) ==
    /\ wpc[w] = "job"
    /\ \E d \in DispatchOutcomes :
        /\ conns' = [conns EXCEPT ![wjob[w]] = d]
        /\ wpc' = [wpc EXCEPT ![w] = IF d.panicked THEN "panicked" ELSE "lock"]
        /\ done' = [done EXCEPT ![wjob[w]] = ~d.panicked]
    /\ wjob' = [wjob EXCEPT ![w] = 0]
    /\ UNCHANGED <<size, workers, chan, mutex, ppc, sent, dropping, njobs,
                   nshut, returned, accepted, runs, ranBy, deq>>
    /\ UNCHANGED <<respVars, reqVars, jobVars>>

\* ------------------------------------------------------- specifications
\* The pool: a thread that owns a Pool of 1..MaxWorkers workers and calls
\* schedule and shutdown on it.
Init ==
    /\ \E n \in 1..MaxWorkers : PoolInit(n)
    /\ RespInit
    /\ ReqIdle
    /\ ServeIdle
    /\ NoStall

Next ==
    \/ Schedule
    \/ ShutdownCall
    \/ ShutdownSend
    \/ ShutdownJoin
    \/ ShutdownReturn
    \/ \E w \in Workers : WorkerLock(w)
    \/ \E w \in Workers : WorkerRecv(w)
    \/ \E w \in Workers : JobReturn(w)

Spec == Init /\ [][Next]_vars

\* The scheduler runs every thread that can take a step: the workers, and
\* the thread inside Pool::shutdown; every job returns.
PoolFairness ==
    /\ WF_vars(ShutdownSend)
    /\ WF_vars(ShutdownJoin)
    /\ WF_vars(ShutdownReturn)
    /\ \A w \in 1..MaxWorkers : WF_vars(w \in Workers /\ WorkerLock(w))
    /\ \A w \in 1..MaxWorkers : WF_vars(w \in Workers /\ WorkerRecv(w))
    /\ \A w \in 1..MaxWorkers : WF_vars(w \in Workers /\ JobReturn(w))

LiveSpec == Init /\ [][Next]_vars /\ PoolFairness

\* A pool of at least two workers that is given one job that never returns,
\* under the same scheduling.
StallInit ==
    /\ \E n \in 2..MaxWorkers : PoolInit(n)
    /\ RespInit
    /\ ReqIdle
    /\ ServeIdle
    /\ \E j \in JobIds : stalled = {j}

StallSpec == StallInit /\ [][Next]_vars /\ PoolFairness

\* One Response over a sink, and any sequence of calls on it.
RespSpecInit ==
    /\ PoolInit(0)
    /\ RespInit
    /\ ReqIdle
    /\ ServeIdle
    /\ NoStall

RespNext ==
    \/ CallStatus
    \/ CallHeader
    \/ CallWrite

RespSpec == RespSpecInit /\ [][RespNext]_vars

\* One call of Request::from_stream on a socket that carries a request.
ReqSpecInit ==
    /\ PoolInit(0)
    /\ RespInit
    /\ ReqInit
    /\ ServeIdle
    /\ NoStall

ReqNext ==
    \/ FillBuf
    \/ ScanBuf
    \/ ReadBody

ReqSpec == ReqSpecInit /\ [][ReqNext]_vars

\* Server::serve: the accept loop schedules one dispatch job per connection
\* on its pool, until accepting fails and the pool is dropped. serve builds
\* the pool with Pool::new(8); the state space of 8 workers is out of reach,
\* so the pool here has any size from 1 to ServeWorkers.
ServeInit ==
    /\ \E n \in 1..ServeWorkers : PoolInit(n)
    /\ RespInit
    /\ ReqIdle
    /\ ServeIdle
    /\ NoStall

ServeNext ==
    \/ Accept
    \/ AcceptError
    \/ ShutdownSend
    \/ ShutdownJoin
    \/ ShutdownReturn
    \/ \E w \in Workers : WorkerLock(w)
    \/ \E w \in Workers : WorkerRecv(w)
    \/ \E w \in Workers : DispatchJob(w)

ServeSpec == ServeInit /\ [][ServeNext]_vars

\* ------------------------------------------------------------ Pool: claims
InShutdown == ppc \in {"send", "join"}
Closed == returned >= 1 /\ ~InShutdown
CountIn(q, m) == Cardinality({i \in 1..Len(q) : q[i] = m})

\* C1: a call to Pool::shutdown eventually returns, for every pool size and
\* every number of jobs scheduled before it, given that every job returns.
C1_ShutdownReturns ==
    \A k \in 0..(MaxShutdowns + 1) :
        (InShutdown /\ returned = k) ~> (~InShutdown /\ returned = k + 1)

C1_Witness ==
    /\ returned = 1
    /\ accepted # {}
    /\ \A j \in accepted : done[j]

\* C2: every job Pool::schedule accepted is called exactly once, by exactly
\* one worker: it is on the channel or has been called once, never both, never
\* twice, and once shutdown has returned it has been called and has returned.
C2_ExactlyOnce ==
    \A j \in JobIds :
        /\ runs[j] <= 1
        /\ Cardinality(ranBy[j]) = runs[j]
        /\ j \in accepted => CountIn(chan, JobMsg(j)) + runs[j] = 1
        /\ j \notin accepted => CountIn(chan, JobMsg(j)) + runs[j] = 0
        /\ (returned >= 1 /\ j \in accepted) => (runs[j] = 1 /\ done[j])

C2_Witness ==
    /\ returned >= 1
    /\ Cardinality(accepted) >= 2
    /\ Cardinality(UNION {ranBy[j] : j \in accepted}) >= 2

\* C3: every scheduled job is received before any Shutdown message is, has
\* returned by the time shutdown returns, and a job a worker is running keeps
\* running until it returns, whatever Shutdown messages arrive meanwhile.
C3_JobsBeforeSignals ==
    \A i \in 1..Len(deq) :
        deq[i].type = "Shutdown" =>
            \A j \in accepted : \E k \in 1..(i - 1) : deq[k] = JobMsg(j)

C3_NoCancel ==
    \A w \in Workers :
        wpc[w] = "job" =>
            \/ wpc'[w] = "job" /\ wjob'[w] = wjob[w]
            \/ wpc'[w] = "lock" /\ done'[wjob[w]]

C3_JobsCompleteBeforeShutdown ==
    /\ [](C3_JobsBeforeSignals /\ (returned >= 1 => \A j \in accepted : done[j]))
    /\ [][C3_NoCancel]_vars

C3_Witness ==
    /\ \E w \in Workers : wpc[w] = "job"
    /\ \E w \in Workers : wpc[w] = "exit"
    /\ InShutdown

\* C4: once shutdown has returned the pool has size 0 and no workers, size
\* never leaves 0 again, and every later schedule call panics and sends nothing.
C4_ScheduleRejected ==
    (Closed /\ njobs' # njobs) =>
        /\ ppc' = "unwind"
        /\ chan' = chan
        /\ accepted' = accepted

C4_ClosedIsTerminal ==
    /\ [](returned >= 1 => (size = 0 /\ Len(workers) = 0))
    /\ [][(size = 0 => size' = 0) /\ C4_ScheduleRejected]_vars

C4_Witness ==
    /\ returned >= 1
    /\ ppc = "unwind"
    /\ accepted # {}

\* -------------------------------------------------------- Response: claims
Called(name) == ncalls' # ncalls /\ last'.call = name

\* C5: over a sink that takes every byte it is offered, a Response that was
\* never written to has sent nothing, and one written to has sent exactly one
\* head (status line, headers, blank line) followed by the bytes of all write
\* calls in call order.
C5_OneHeadThenBodies ==
    /\ nwrites = 0 => res.socket = <<>>
    /\ (nwrites >= 1 /\ sinkOk) =>
        /\ \E order \in IterOrders(res.headers) :
            res.socket = FormatHead(res.status, res.headers, order) \o wrote
        /\ Cardinality({i \in 1..Len(res.socket) : res.socket[i] = HTTP_VERSION}) = 1

C5_Witness ==
    /\ nwrites >= 2
    /\ sinkOk
    /\ wrote = <<"a", "b">>
    /\ res.status = 404

\* C6 as stated: on a dirty Response every status(code) and header(key, val)
\* call fails with AlreadyExists (the spec's AlreadyFlushed) and changes
\* neither status nor headers.
C6_AlwaysAlreadyFlushed ==
    [][(res.dirty /\ (Called("status") \/ Called("header"))) =>
          /\ last'.ret = "AlreadyExists"
          /\ res'.status = res.status
          /\ res'.headers = res.headers]_vars

\* C6 as amended: on a dirty Response every status(code) and header(key, val)
\* call fails and changes nothing; the error is AlreadyExists, except that
\* status(code) with code >= 600 fails with InvalidData (invalid status code).
C6_FailsAfterFlush ==
    [][(res.dirty /\ (Called("status") \/ Called("header"))) =>
          /\ last'.ret = IF last'.call = "status" /\ last'.code >= 600
                         THEN "InvalidData" ELSE "AlreadyExists"
          /\ res' = res]_vars

C6_Witness ==
    /\ res.dirty
    /\ last.call = "status"
    /\ last.ret = "AlreadyExists"
    /\ res.status # last.code

\* C7 as stated: the stored status is always in 100..599.
C7_StatusInRange ==
    100 <= res.status /\ res.status < 600

\* C7 as amended: the stored status is always below 600: status(code) with
\* code >= 600 fails and changes nothing, while any code below 600, also one
\* below 100, is stored on a Response that is not dirty.
C7_StatusBelow600 ==
    /\ [](res.status < 600)
    /\ [][Called("status") =>
            IF last'.code >= 600
            THEN last'.ret = "InvalidData" /\ res' = res
            ELSE ~res.dirty => (last'.ret = "Ok" /\ res'.status = last'.code)]_vars

C7_Witness ==
    /\ last.call = "status"
    /\ last.code = 600
    /\ last.ret = "InvalidData"
    /\ ~res.dirty

\* --------------------------------------------------------- Request: claims
\* A well-formed request that declares Content-Length = L > 0 and carries
\* exactly L bytes after the blank line.
FramedExactly(r) ==
    /\ r \in FramedRequests
    /\ Len(r.body) > 0
    /\ r.lines[Len(r.lines) - 1] = ContentLengthLine(Len(r.body))

\* C8: for a valid request with Content-Length = L > 0 and exactly L bytes
\* after the blank line, from_stream returns a body equal to those L bytes,
\* however the socket hands the bytes to the reads.
C8_BodyRecovered ==
    (rpc = "done" /\ result = "Ok" /\ FramedExactly(sentReq)) =>
        req.body = Some(sentReq.body)

\* ----------------------------------------------------------- serve: claims
Head400 ==
    <<"HTTP/1.1", " ", "400", " ", "Bad Request", "\r\n",
      "Content-Type", ": ", "text/plain", "\r\n", "\r\n">>

IsPrefix(a, b) == Len(a) <= Len(b) /\ a = SubSeq(b, 1, Len(a))

NoThreadPanicked ==
    /\ \A w \in Workers : wpc[w] # "panicked"
    /\ ppc \notin {"aborted", "unwind"}

\* The step in which worker w runs the dispatch job of a connection.
Dispatched(w) == wpc[w] = "job" /\ conns'[wjob[w]].parsed # "none"

\* C9 as stated: when from_stream fails, the sink receives the 400 status
\* line and header block, the handler is not called and no worker panics.
C9_SinkReceives400 ==
    \A c \in JobIds :
        conns[c].parsed = "Err" =>
            /\ conns[c].res.socket = Head400
            /\ conns[c].handled = 0
            /\ NoThreadPanicked

\* C9 as amended: when from_stream fails the job sets status 400 on a fresh
\* Response and makes one empty write, which offers the sink the 400 status
\* line and header block: the sink holds all of it when it took what it was
\* offered, and else a part of it or nothing (the write's error is only
\* logged); the handler is not called; the worker does not panic and goes
\* back to the start of its loop.
C9_ParseFailure ==
    \A c \in JobIds :
        conns[c].parsed = "Err" =>
            /\ conns[c].res.status = 400
            /\ conns[c].wret \in {"Ok", "IoError"}
            /\ conns[c].took => (conns[c].res.socket = Head400 /\ conns[c].wret = "Ok")
            /\ IsPrefix(conns[c].res.socket, Head400)
            /\ conns[c].handled = 0

C9_WorkerGoesOn ==
    \A w \in Workers :
        (Dispatched(w) /\ conns'[wjob[w]].parsed = "Err") =>
            (wpc'[w] = "lock" /\ mutex' = mutex /\ chan' = chan)

C9_BadRequestAnswered ==
    /\ [](C9_ParseFailure /\ NoThreadPanicked)
    /\ [][C9_WorkerGoesOn]_vars

C9_Witness ==
    /\ size = 1
    /\ conns[1].parsed = "Err"
    /\ conns[1].took
    /\ conns[2].parsed # "none"

\* C10: the handler is called once for a connection whose request parsed and
\* never for one whose request did not; once serve has returned that holds of
\* every accepted connection; a handler that returns an error ends its own job
\* only: its worker goes back to its loop, and the accept loop, the channel
\* and the other workers are untouched.
C10_HandlerCalls ==
    \A c \in JobIds :
        /\ runs[c] <= 1
        /\ conns[c].handled = (IF conns[c].parsed = "Ok" THEN 1 ELSE 0)
        /\ (conns[c].parsed # "none") <=> (runs[c] = 1 /\ done[c])
        /\ (returned >= 1 /\ c \in accepted) => conns[c].parsed # "none"

C10_HandlerErrorIsLocal ==
    \A w \in Workers :
        (Dispatched(w) /\ conns'[wjob[w]].hret = "Err") =>
            /\ wpc'[w] = "lock"
            /\ \A v \in Workers \ {w} : wpc'[v] = wpc[v] /\ wjob'[v] = wjob[v]
            /\ <<ppc, chan, mutex, size, workers>>' = <<ppc, chan, mutex, size, workers>>
            /\ \A c \in JobIds \ {wjob[w]} : conns'[c] = conns[c]

C10_HandlerOncePerParsedRequest ==
    /\ [](C10_HandlerCalls /\ NoThreadPanicked)
    /\ [][C10_HandlerErrorIsLocal]_vars

C10_Witness ==
    /\ returned >= 1
    /\ \E c, d \in JobIds :
        /\ conns[c].hret = "Err"
        /\ conns[d].parsed = "Err"

\* ----------------------------------------------------- Pool: further claims
JobsDequeued == SelectSeq(deq, LAMBDA m : m.type = "Job")

Executing == {j \in JobIds : runs[j] >= 1 /\ ~done[j]}

JobStarts == \E j \in JobIds : runs'[j] > runs[j]

C11_Bounded ==
    /\ Cardinality(Executing) <= Cardinality(Workers)
    /\ Cardinality(Workers) = 1 =>
        \A i \in 1..Len(JobsDequeued) : JobsDequeued[i] = JobMsg(i)

C11_StartsAfterReturn ==
    (Cardinality(Workers) = 1 /\ JobStarts) =>
        \A k \in JobIds : runs[k] >= 1 => done[k]

\* C11: in a pool of N workers at most N jobs are executing at any moment; in
\* a pool of one worker jobs start in the order they were scheduled, and a job
\* starts only after every job dequeued before it has returned.
C11_NoOverlap ==
    /\ []C11_Bounded
    /\ [][C11_StartsAfterReturn]_vars

C11_Witness ==
    /\ Cardinality(Workers) = 1
    /\ Len(JobsDequeued) = 2
    /\ done[1]
    /\ Executing = {2}

Signals(q) == CountIn(q, ShutdownMsg)

Exited == {w \in Workers : wpc[w] = "exit"}

C17_Signals ==
    /\ Signals(chan) + Signals(deq) <= Cardinality(Workers)
    /\ (ppc = "join" /\ returned = 0) =>
        Signals(chan) + Signals(deq) = Cardinality(Workers)
    /\ Cardinality(Exited) = Signals(deq)
    /\ mutex \notin Exited
    /\ returned >= 1 =>
        /\ Exited = Workers
        /\ Signals(deq) = Cardinality(Workers)
        /\ chan = <<>>
        /\ size = 0

C17_ExitOnSignal ==
    \A w \in Workers :
        /\ wpc[w] = "exit" => wpc'[w] = "exit"
        /\ (wpc[w] # "exit" /\ wpc'[w] = "exit") =>
            (mutex = w /\ deq' = Append(deq, ShutdownMsg))
        /\ (mutex = w /\ deq' = Append(deq, ShutdownMsg)) => wpc'[w] = "exit"

\* C17: shutdown on a pool of N workers sends exactly N Shutdown messages; a
\* worker exits on the one it receives and receives nothing after it; when
\* shutdown returns all N workers have exited, each on one message, the
\* channel is empty and size is 0.
C17_OneSignalPerWorker ==
    /\ []C17_Signals
    /\ [][C17_ExitOnSignal]_vars

C17_Witness ==
    /\ returned >= 1
    /\ Cardinality(Workers) = MaxWorkers
    /\ Signals(deq) = MaxWorkers
    /\ accepted # {}

Holders == {w \in Workers : wpc[w] = "recv"}

C18_Exclusive ==
    /\ Cardinality(Holders) <= 1
    /\ \A w \in Workers : (w \in Holders) <=> (mutex = w)
    /\ \A w \in Workers : wpc[w] = "job" => mutex # w
    /\ \A j \in stalled : Cardinality(ranBy[j]) <= 1 /\ ~done[j]

\* C18: at most one worker at a time holds the receiver's mutex, and no worker
\* holds it while it runs a job; so in a pool of two or more workers a job
\* that never returns keeps one worker, and every other job that was scheduled
\* is eventually run, and returns.
C18_StalledJobBlocksOneWorker ==
    /\ []C18_Exclusive
    /\ \A j \in JobIds :
        (j \in accepted /\ j \notin stalled) ~> (runs[j] = 1 /\ done[j])

C18_Witness ==
    \E s \in stalled : \E j \in JobIds :
        /\ runs[s] = 1
        /\ j > s
        /\ done[j]
        /\ ranBy[j] # ranBy[s]

C19_ClosedPool ==
    returned >= 1 =>
        /\ Disconnected
        /\ chan = <<>>
        /\ Len(workers) = 0
        /\ size = 0
        /\ ppc # "aborted"

C19_SecondRun ==
    (returned >= 1 /\ InShutdown) =>
        /\ chan' = chan
        /\ workers' = workers
        /\ size' = 0
        /\ ppc = "send" => (ppc' = "join" /\ sent' = 0)
        /\ ppc = "join" => (returned' = returned + 1 /\ ppc' \in {"idle", "dropped"})

\* C19: a run of Pool::shutdown on a pool that an earlier run closed, as when
\* the pool is dropped after an explicit shutdown, sends nothing on the
\* channel (which has no receiver left), joins no worker, does not panic,
\* returns after its two empty loops and leaves size at 0.
C19_SecondShutdownIsNoOp ==
    /\ []C19_ClosedPool
    /\ [][C19_SecondRun]_vars

C19_Witness ==
    /\ returned = 2
    /\ nshut = 1
    /\ ppc = "dropped"
    /\ accepted # {}

\* ------------------------------------------------- Response: further claims
C20_HeadErrorLeavesClean ==
    /\ ~res.dirty => res.socket = <<>>
    /\ \A buf \in Bufs, order \in IterOrders(res.headers), ob \in SinkOutcomes :
        /\ ~res.dirty =>
            Write(res, buf, order, "err", ob) = [res |-> res, ret |-> "IoError"]
        /\ \A oh \in {"all", "short"} :
            /\ Write(res, buf, order, oh, "err").ret = "IoError"
            /\ Write(res, buf, order, oh, "err").res.dirty
            /\ Write(res, buf, order, oh, "err").res.socket
                   = res.socket \o (IF res.dirty THEN <<>>
                                    ELSE Taken(FormatHead(res.status, res.headers, order), oh))

C20_DirtyFollowsHead ==
    /\ res.dirty => res'.dirty
    /\ (Called("write") /\ ~res'.dirty) => (last'.ret = "IoError" /\ res' = res)
    /\ (Called("write") /\ ~res.dirty /\ res'.dirty /\ res'.socket # <<>>) =>
            res'.socket[1] = "HTTP/1.1"
    /\ (Called("status") /\ ~res.dirty /\ last'.code < 600) =>
            (last'.ret = "Ok" /\ res'.status = last'.code)
    /\ (Called("header") /\ ~res.dirty) =>
            (last'.ret = "Ok" /\ \E k \in HeaderKeys : res'.headers[k] \in HeaderVals)

\* C20: write sets dirty only after the sink's write of the head returned Ok:
\* when that write returns an error, write returns it, dirty stays false,
\* nothing of the call's body reaches the sink, status and header still
\* succeed, and the next write sends the head again; when the head was taken
\* and the body's write fails, dirty is true, and dirty never goes back.
C20_DirtyAfterHeadAccepted ==
    /\ []C20_HeadErrorLeavesClean
    /\ [][C20_DirtyFollowsHead]_vars

C20_Witness ==
    /\ nwrites >= 1
    /\ ~res.dirty
    /\ last.call = "status"
    /\ last.ret = "Ok"
    /\ res.status = 404

\* The head the specification describes, piece by piece, for the statuses a
\* Response of RespSpec can hold.
SpecReason(status) ==
    CASE status = 200 -> "OK"
      [] status = 404 -> "Not Found"
      [] OTHER -> "Unknown Status"

SpecHead(status, headers, order) ==
    [k \in 1..(4 * Len(order) + 7) |->
        IF k <= 6
        THEN <<"HTTP/1.1", " ", ToString(status), " ", SpecReason(status), "\r\n">>[k]
        ELSE IF k = 4 * Len(order) + 7 THEN "\r\n"
        ELSE LET key == order[((k - 7) \div 4) + 1] IN
             <<key, ": ", headers[key], "\r\n">>[((k - 7) % 4) + 1]]

LastBuf == SubSeq(wrote', Len(wrote) + 1, Len(wrote'))

C16_FirstWrite ==
    (Called("write") /\ ~res.dirty /\ sinkOk') =>
        /\ last'.ret = "Ok"
        /\ \E order \in IterOrders(res.headers) :
            res'.socket = SpecHead(res.status, res.headers, order) \o LastBuf

C16_Scenario ==
    /\ ncalls = 0 =>
        (res.status = 200 /\ res.headers = [k \in {"Content-Type"} |-> "text/plain"])
    /\ (ncalls = 2 /\ last.call = "write" /\ res.status = 404 /\ sinkOk) =>
        res.socket = <<"HTTP/1.1", " ", "404", " ", "Not Found", "\r\n",
                       "Content-Type", ": ", "text/plain", "\r\n", "\r\n">> \o wrote
    /\ (ncalls = 2 /\ last.call = "write" /\ res.status = 0 /\ sinkOk) =>
        res.socket = <<"HTTP/1.1", " ", "0", " ", "Unknown Status", "\r\n",
                       "Content-Type", ": ", "text/plain", "\r\n", "\r\n">> \o wrote

\* C16: the first write sends, ahead of its buffer, 'HTTP/1.1 <status>
\* <reason>' CRLF, one 'Key: Value' CRLF line per header stored at that moment,
\* and a blank line; a fresh Response has status 200 and the one header
\* Content-Type: text/plain, so status(404) and then a write send the line for
\* 404 Not Found, that header, a blank line and the body; a status outside the
\* table is sent with the reason Unknown Status and the write succeeds. (What
\* the sink holds is what write sent when the sink takes every byte.)
C16_HeadFormat ==
    /\ []C16_Scenario
    /\ [][C16_FirstWrite]_vars

C16_Witness ==
    /\ ncalls = 2
    /\ last.call = "write"
    /\ res.status = 404
    /\ sinkOk
    /\ wrote = <<"a", "b">>

\* -------------------------------------------------- Request: further claims
\* The request line the client sent (its first line that is not empty), and
\* its tokens: the stretches between one space and the next.
SentStartLine ==
    sentReq.lines[CHOOSE i \in 1..Len(sentReq.lines) :
                      /\ sentReq.lines[i] # <<>>
                      /\ \A j \in 1..(i - 1) : sentReq.lines[j] = <<>>]

Spaces(l) == {i \in 1..Len(l) : l[i] = " "}

NTokens(l) == Cardinality(Spaces(l)) + 1

SpaceAt(l, k) ==
    IF k = 0 THEN 0
    ELSE IF k > Cardinality(Spaces(l)) THEN Len(l) + 1
    ELSE CHOOSE i \in Spaces(l) : Cardinality({j \in Spaces(l) : j < i}) = k - 1

Token(l, k) == SubSeq(l, SpaceAt(l, k - 1) + 1, SpaceAt(l, k) - 1)

WellFormedLine(l) ==
    NTokens(l) = 3 /\ Token(l, 3) = <<"H", "T", "T", "P", "/", "1", ".", "1">>

StartLineErrors == {"protocol not HTTP", "invalid HTTP version"}

SpecMethod(t) ==
    CASE t = <<"G", "E", "T">> -> [kind |-> "Get", name |-> <<>>]
      [] t = <<"P", "O", "S", "T">> -> [kind |-> "Post", name |-> <<>>]
      [] t = <<"P", "U", "T">> -> [kind |-> "Put", name |-> <<>>]
      [] t = <<"D", "E", "L", "E", "T", "E">> -> [kind |-> "Delete", name |-> <<>>]
      [] OTHER -> [kind |-> "Unknown", name |-> t]

\* C12: for a request line of three tokens ending in HTTP/1.1, parsing the
\* line never fails whatever the method token is; GET, POST, PUT and DELETE
\* give Get, Post, Put and Delete, and any other token gives Unknown carrying
\* that token unchanged.
C12_MethodParsed ==
    (rpc # "lines" \/ started) =>
        (WellFormedLine(SentStartLine) =>
            /\ result \notin StartLineErrors
            /\ started => req.method = SpecMethod(Token(SentStartLine, 1))
            /\ (rpc = "done" /\ result # "IoError") => started)

C12_Witness ==
    /\ rpc = "done"
    /\ result = "Ok"
    /\ req.method = [kind |-> "Unknown", name |-> <<"B", "R", "E", "W">>]

\* C14: from_stream accepts a request line only when it has exactly three
\* space-separated tokens and the third is HTTP/1.1; a line with fewer than
\* three tokens or with another version fails; on success location is the
\* second token; blank lines before the request line are skipped.
C14_ExactlyThreeTokens ==
    /\ started =>
        /\ WellFormedLine(SentStartLine)
        /\ req.location = Token(SentStartLine, 2)
    /\ (rpc = "done" /\ result # "IoError" /\ ~WellFormedLine(SentStartLine)) =>
        result \in StartLineErrors

\* The header lines the client sent: those after the request line, up to the
\* first empty line or the end.
StartLineIdx ==
    CHOOSE i \in 1..Len(sentReq.lines) :
        sentReq.lines[i] # <<>> /\ \A j \in 1..(i - 1) : sentReq.lines[j] = <<>>

HeaderEndIdx ==
    IF \E i \in (StartLineIdx + 1)..Len(sentReq.lines) : sentReq.lines[i] = <<>>
    THEN CHOOSE i \in (StartLineIdx + 1)..Len(sentReq.lines) :
            /\ sentReq.lines[i] = <<>>
            /\ \A j \in (StartLineIdx + 1)..(i - 1) : sentReq.lines[j] # <<>>
    ELSE Len(sentReq.lines) + 1

SentHeaderLines == SubSeq(sentReq.lines, StartLineIdx + 1, HeaderEndIdx - 1)

SentHas(l) == \E i \in 1..Len(SentHeaderLines) : SentHeaderLines[i] = l

\* The Content-Length the client declared, -1 when it sent none that is a number.
Declared ==
    IF \E n \in 0..(MaxBody + 1) : SentHas(ContentLengthLine(n))
    THEN CHOOSE n \in 0..(MaxBody + 1) : SentHas(ContentLengthLine(n))
    ELSE -1

NoColonSent == \E i \in 1..Len(SentHeaderLines) : ":" \notin {SentHeaderLines[i][k] : k \in 1..Len(SentHeaderLines[i])}

C13_RejectsBadLength ==
    (rpc = "done" /\ SentHas(HeaderBadLength)) =>
        /\ result \in {"invalid content length", "malformed HTTP header", "IoError",
                       "protocol not HTTP", "invalid HTTP version"}
        /\ (started /\ ~NoColonSent /\ result # "IoError") => result = "invalid content length"

\* C13 as stated: in a Request that from_stream returns, a body that is
\* present has exactly Content-Length bytes, the body is absent when the header
\* is missing or zero, and a Content-Length that is not a number fails the
\* parse with "invalid content length".
C13_BodyLengthExact ==
    /\ (rpc = "done" /\ result = "Ok") =>
        /\ req.body.some => Len(req.body.bytes) = Declared
        /\ Declared <= 0 => ~req.body.some
    /\ C13_RejectsBadLength

\* C13 as amended: in a Request that from_stream returns, a body that is
\* present goes with a Content-Length above 0, has at most that many bytes and
\* is the start of what followed the header block (it is shorter when the
\* stream ended early or the one read returned less); the body is absent when
\* the header is missing or zero; a Content-Length that is not a number fails
\* the parse with "invalid content length".
C13_BodyWithinLength ==
    /\ (rpc = "done" /\ result = "Ok") =>
        /\ req.body.some =>
            /\ Declared > 0
            /\ Len(req.body.bytes) <= Declared
            /\ IsPrefix(req.body.bytes, sentReq.body)
        /\ Declared <= 0 => ~req.body.some
    /\ C13_RejectsBadLength

C13_Witness ==
    /\ rpc = "done"
    /\ result = "Ok"
    /\ req.body.some
    /\ Declared = 2
    /\ Len(sentReq.body) = 1
    /\ req.body.bytes = sentReq.body

\* A header line as the specification reads it: the key is what precedes the
\* first colon, the value what follows it, both without the whitespace around.
FirstColon(l) ==
    CHOOSE i \in 1..Len(l) : l[i] = ":" /\ \A j \in 1..(i - 1) : l[j] # ":"

Inked(s) == {i \in 1..Len(s) : s[i] \notin {" ", "\t", "\r", "\n"}}

Trimmed(s) ==
    IF Inked(s) = {} THEN <<>>
    ELSE SubSeq(s, CHOOSE i \in Inked(s) : \A j \in Inked(s) : i <= j,
                   CHOOSE i \in Inked(s) : \A j \in Inked(s) : i >= j)

KeyOf(l) == Trimmed(SubSeq(l, 1, FirstColon(l) - 1))

ValOf(l) == Trimmed(SubSeq(l, FirstColon(l) + 1, Len(l)))

LastWith(k) ==
    CHOOSE i \in 1..Len(SentHeaderLines) :
        /\ KeyOf(SentHeaderLines[i]) = k
        /\ \A j \in (i + 1)..Len(SentHeaderLines) : KeyOf(SentHeaderLines[j]) # k

SpecHeaders ==
    [k \in {KeyOf(SentHeaderLines[i]) : i \in 1..Len(SentHeaderLines)} |->
        ValOf(SentHeaderLines[LastWith(k)])]

\* C15: the lines after the request line, up to the first blank line, are
\* each split at their first colon into a trimmed key and a trimmed value; a
\* line without a colon fails the parse ("malformed HTTP header"); a key that
\* occurs again takes the value of its last occurrence; keys are kept as
\* received, so keys that differ in case are different keys.
C15_HeadersParsed ==
    /\ (rpc = "done" /\ result = "Ok") =>
        (~NoColonSent /\ req.headers = SpecHeaders)
    /\ (rpc = "done" /\ started /\ NoColonSent /\ result # "IoError") =>
        result = "malformed HTTP header"

C15_Witness ==
    /\ rpc = "done"
    /\ result = "Ok"
    /\ Len(SentHeaderLines) = 2
    /\ DOMAIN req.headers = {<<"X", "-", "I", "d">>}
    /\ req.headers[<<"X", "-", "I", "d">>] = <<"8">>

====
